---- MODULE Spec2Model ----
(***************************************************************************)
(* Case lifecycle and audit-event engine (src/src/models/cases.js) over a  *)
(* relational store with the schema of src/migrations.                     *)
(*                                                                         *)
(* Every engine operation is a sequence of awaited store calls on one      *)
(* pooled connection: connect, BEGIN, SELECT, UPDATE/INSERT, INSERT event, *)
(* COMMIT (or ROLLBACK).  Each awaited call is one action; the JavaScript  *)
(* between two awaits runs atomically with the call that precedes it.      *)
(* Operations of different requests interleave at the awaits.              *)
(*                                                                         *)
(* The store is PostgreSQL at its default isolation level (a plain BEGIN): *)
(* READ COMMITTED.  A SELECT sees the rows committed when it runs and      *)
(* takes no lock; an UPDATE waits for the row lock, then works on the      *)
(* latest committed version of the row and holds the lock until the        *)
(* transaction ends; the writes of a transaction become visible together   *)
(* at COMMIT and vanish together at ROLLBACK.  The bigserial sequence of   *)
(* case_events.id is not transactional: an id drawn by a transaction that  *)
(* rolls back is not reused.                                               *)
(*                                                                         *)
(* A nullable value is Null (SQL NULL, JavaScript null or undefined) or a  *)
(* one-element tuple <<v>> holding the value.                              *)
(***************************************************************************)
EXTENDS Integers, Sequences, FiniteSets, TLC

\* ---------------------------------------------------------------- bounds
MaxCases == 2
MaxProcs == 2
MaxOps == 3
MaxFailures == 1

CaseIds == 1..MaxCases
Procs == 1..MaxProcs

\* ---------------------------------------------------------------- values
Null == <<>>
Some(v) == <<v>>

\* JavaScript x || null on a text parameter: undefined, null and "" give null.
OrNullText(x) == IF x = Null \/ x = Some("") THEN Null ELSE x
\* JavaScript x || null on a numeric parameter: undefined, null and 0 give null.
OrNullInt(x) == IF x = Null \/ x = Some(0) THEN Null ELSE x

\* ---------------------------------------------------------------- schema
\* The columns of the cases table after the three migrations (id is the key).
CaseCols ==
  {"state", "title", "description", "created_by", "created_at", "updated_at",
   "version", "updated_by", "assigned_to", "person_name", "nhs_number",
   "dob_day", "dob_month", "dob_year",
   "symptoms_day", "symptoms_month", "symptoms_year",
   "postcode", "organisation"}

\* The columns declared notNull.
NotNullCols ==
  {"state", "title", "created_by", "created_at", "updated_at", "version", "updated_by"}

\* The column defaults of the cases table; now is the value of now().
ColumnDefault(k, now) ==
  CASE k = "state" -> Some("DRAFT")
    [] k = "created_by" -> Some("local-user")
    [] k = "updated_by" -> Some("local-user")
    [] k = "created_at" -> Some(now)
    [] k = "updated_at" -> Some(now)
    [] k = "version" -> Some(1)
    [] OTHER -> Null

\* A row satisfies the notNull constraints of the table.
SatisfiesNotNull(row) == \A k \in NotNullCols : row[k] # Null

\* INSERT INTO cases (<DOMAIN vals>) VALUES (...): the columns not named take
\* their defaults.
InsertedRow(vals, now) ==
  [k \in CaseCols |-> IF k \in DOMAIN vals THEN vals[k] ELSE ColumnDefault(k, now)]

\* UPDATE cases SET <DOMAIN set> = ... on one row: the columns not named keep
\* their values.
UpdatedRow(row, set) ==
  [k \in CaseCols |-> IF k \in DOMAIN set THEN set[k] ELSE row[k]]

\* The RETURNING list of createCase and of the four field-group updates.
ReturningCols == CaseCols \ {"version"}

\* The RETURNING list of transitionCase (id is the key of the row).
TransitionReturningCols == {"state", "title", "created_at", "updated_at"}

\* RETURNING <cols>: the projection of the written row the caller receives.
Returning(row, cols) == [k \in cols |-> row[k]]

\* ---------------------------------------------------------------- inputs
\* The parameters the callers pass, as small sets of argument records.
CreateInputs ==
  {[title |-> Some("Flu cluster"), description |-> Some(""), createdBy |-> Some("alice")],
   [title |-> Null, description |-> Some("notes"), createdBy |-> Some("alice")]}

DetailsInputs ==
  {[title |-> Some("Flu cluster B"), description |-> Some("notes"), actorId |-> Some("bob")],
   [title |-> Some("Flu cluster"), description |-> Some(""), actorId |-> Some("bob")]}

PersonInputs ==
  {[personName |-> Some("Jane Doe"), nhsNumber |-> Some("123 456 7890"),
    dobDay |-> Some(1), dobMonth |-> Some(1), dobYear |-> Some(1990), actorId |-> Some("bob")],
   [personName |-> Some(""), nhsNumber |-> Null,
    dobDay |-> Some(1), dobMonth |-> Some(0), dobYear |-> Some(1990), actorId |-> Some("carol")]}

ClinicalInputs ==
  {[symptomsDay |-> Some(2), symptomsMonth |-> Some(3), symptomsYear |-> Some(2024),
    actorId |-> Some("bob")]}

LocationInputs ==
  {[postcode |-> Some("AB1 2CD"), organisation |-> Some(""), actorId |-> Some("bob")],
   [postcode |-> Some("ZZ9 9ZZ"), organisation |-> Some("Trust"), actorId |-> Some("carol")]}

TransitionInputs ==
  {[eventType |-> Some("SUBMIT_FOR_REVIEW"), comment |-> Null, actorId |-> Some("bob")],
   [eventType |-> Some("APPROVE"), comment |-> Null, actorId |-> Some("carol")],
   [eventType |-> Some("RETURN"), comment |-> Some("incomplete"), actorId |-> Some("carol")],
   [eventType |-> Some("REVIEW_APPROVE"), comment |-> Null, actorId |-> Some("carol")]}

UpdateOps ==
  {"updateCaseDetails", "updatePersonDetails", "updateClinicalDetails", "updateLocationDetails"}

EngineOps == {"createCase", "transitionCase"} \cup UpdateOps

InputsOf(op) ==
  CASE op = "createCase" -> CreateInputs
    [] op = "updateCaseDetails" -> DetailsInputs
    [] op = "updatePersonDetails" -> PersonInputs
    [] op = "updateClinicalDetails" -> ClinicalInputs
    [] op = "updateLocationDetails" -> LocationInputs
    [] op = "transitionCase" -> TransitionInputs

\* ---------------------------------------------------------------- engine: pure parts
\* Mutant of createCaseValues: the INSERT names no updated_by, which then takes
\* the column default.
createCaseValuesNoUpdatedBy(a) ==
  [title |-> a.title, description |-> OrNullText(a.description), created_by |-> a.createdBy]

\* createCase: the columns and values of its INSERT INTO cases.
createCaseValues(a) ==
  [title |-> a.title, description |-> OrNullText(a.description),
   created_by |-> a.createdBy, updated_by |-> a.createdBy]

\* createCase: its INSERT INTO case_events, for the inserted row c.
createCaseEvent(eventId, caseId, c, a) ==
  [id |-> eventId, case_id |-> caseId, event_type |-> Some("CREATE"),
   from_state |-> Null, to_state |-> c["state"], actor_id |-> a.createdBy,
   comment |-> Null, event_data |-> Null]

\* The fields of a snapshot.
SnapshotCols ==
  {"title", "description", "person_name", "nhs_number",
   "dob_day", "dob_month", "dob_year",
   "symptoms_day", "symptoms_month", "symptoms_year",
   "postcode", "organisation", "updated_by", "assigned_to", "state"}

\* pickCaseSnapshot: c.k ?? null for each snapshot field (a field the row
\* projection does not carry is undefined, hence null).
pickCaseSnapshot(c) ==
  IF c = Null THEN Null
  ELSE [k \in SnapshotCols |-> IF k \in DOMAIN c THEN c[k] ELSE Null]

\* insertEvent: one row of case_events with from_state = to_state = state.
insertEvent(eventId, caseId, eventType, state, actorId, comment, eventData) ==
  [id |-> eventId, case_id |-> caseId, event_type |-> eventType,
   from_state |-> state, to_state |-> state, actor_id |-> actorId,
   comment |-> comment, event_data |-> eventData]

\* The SET clauses of the four field-group updates; now is NOW().
updateCaseDetailsSet(a, now) ==
  [title |-> a.title, description |-> OrNullText(a.description),
   updated_by |-> a.actorId, updated_at |-> Some(now)]

\* Mutant of updatePersonDetailsSet: the name parameter is not bound.
updatePersonDetailsSetNameLost(a, now) ==
  [person_name |-> Null, nhs_number |-> OrNullText(a.nhsNumber),
   dob_day |-> OrNullInt(a.dobDay), dob_month |-> OrNullInt(a.dobMonth),
   dob_year |-> OrNullInt(a.dobYear),
   updated_by |-> a.actorId, updated_at |-> Some(now)]

updatePersonDetailsSet(a, now) ==
  [person_name |-> OrNullText(a.personName), nhs_number |-> OrNullText(a.nhsNumber),
   dob_day |-> OrNullInt(a.dobDay), dob_month |-> OrNullInt(a.dobMonth),
   dob_year |-> OrNullInt(a.dobYear),
   updated_by |-> a.actorId, updated_at |-> Some(now)]

updateClinicalDetailsSet(a, now) ==
  [symptoms_day |-> OrNullInt(a.symptomsDay), symptoms_month |-> OrNullInt(a.symptomsMonth),
   symptoms_year |-> OrNullInt(a.symptomsYear),
   updated_by |-> a.actorId, updated_at |-> Some(now)]

\* Mutant of updateLocationDetailsSet: organisation is not written.
updateLocationDetailsSetNoOrganisation(a, now) ==
  [postcode |-> OrNullText(a.postcode),
   updated_by |-> a.actorId, updated_at |-> Some(now)]

updateLocationDetailsSet(a, now) ==
  [postcode |-> OrNullText(a.postcode), organisation |-> OrNullText(a.organisation),
   updated_by |-> a.actorId, updated_at |-> Some(now)]

\* Mutant of EditEventType: every update copies the tag of updateCaseDetails.
EditEventTypeCopied(op) == Some("EDIT_DETAILS")

\* The event_type each field-group update passes to insertEvent.
EditEventType(op) ==
  CASE op = "updateCaseDetails" -> Some("EDIT_DETAILS")
    [] op = "updatePersonDetails" -> Some("EDIT_PERSON")
    [] op = "updateClinicalDetails" -> Some("EDIT_CLINICAL")
    [] op = "updateLocationDetails" -> Some("EDIT_LOCATION")

\* Mutant of transitionToState: toState starts as DRAFT, not as fromState.
transitionToStateFromDraft(fromState, eventType) ==
  LET t0 == Some("DRAFT")
      t1 == IF eventType = Some("SUBMIT_FOR_REVIEW") THEN Some("IN_REVIEW") ELSE t0
      t2 == IF eventType = Some("RETURN") THEN Some("RETURNED") ELSE t1
      t3 == IF eventType = Some("APPROVE") THEN Some("APPROVED") ELSE t2
  IN t3

\* transitionCase: toState from fromState and eventType (three ifs in a row).
transitionToState(fromState, eventType) ==
  LET t0 == fromState
      t1 == IF eventType = Some("SUBMIT_FOR_REVIEW") THEN Some("IN_REVIEW") ELSE t0
      t2 == IF eventType = Some("RETURN") THEN Some("RETURNED") ELSE t1
      t3 == IF eventType = Some("APPROVE") THEN Some("APPROVED") ELSE t2
  IN t3

\* Mutant of transitionCaseSet: the UPDATE also stores the comment as the
\* description of the case.
transitionCaseSetStoresComment(toState, a, now) ==
  [state |-> toState, updated_by |-> a.actorId, updated_at |-> Some(now),
   description |-> a.comment]

\* Mutant of transitionCaseSet: the UPDATE sets the state alone.
transitionCaseSetStateOnly(toState, a, now) == [state |-> toState]

\* Mutant of transitionCaseSet: the UPDATE also increments version.
transitionCaseSetBumpsVersion(toState, a, now) ==
  [state |-> toState, updated_by |-> a.actorId, updated_at |-> Some(now),
   version |-> Some(2)]

\* transitionCase: the SET clause of its UPDATE.
transitionCaseSet(toState, a, now) ==
  [state |-> toState, updated_by |-> a.actorId, updated_at |-> Some(now)]

\* Mutant of transitionCaseEvent: from_state is bound to toState.
transitionCaseEventFromIsTo(eventId, caseId, fromState, toState, a) ==
  [id |-> eventId, case_id |-> caseId, event_type |-> a.eventType,
   from_state |-> toState, to_state |-> toState, actor_id |-> a.actorId,
   comment |-> a.comment, event_data |-> Null]

\* Mutant of transitionCaseEvent: comment and actor_id bound to each other's
\* parameter.
transitionCaseEventSwapped(eventId, caseId, fromState, toState, a) ==
  [id |-> eventId, case_id |-> caseId, event_type |-> a.eventType,
   from_state |-> fromState, to_state |-> toState, actor_id |-> a.comment,
   comment |-> a.actorId, event_data |-> Null]

\* transitionCase: its INSERT INTO case_events.
transitionCaseEvent(eventId, caseId, fromState, toState, a) ==
  [id |-> eventId, case_id |-> caseId, event_type |-> a.eventType,
   from_state |-> fromState, to_state |-> toState, actor_id |-> a.actorId,
   comment |-> a.comment, event_data |-> Null]

\* The notNull columns of case_events that the engine supplies.
EventSatisfiesNotNull(e) == e.event_type # Null /\ e.actor_id # Null

\* ---------------------------------------------------------------- state
VARIABLES
  cases,       \* committed rows of the cases table: case id -> row
  events,      \* committed rows of the case_events table (a set of rows)
  seq,         \* last value drawn from the bigserial sequence of case_events.id
  nextCaseId,  \* the next fresh case id (gen_random_uuid never repeats)
  clock,       \* number of transactions begun; now() of a transaction
  tx,          \* per request: the engine operation in progress and its transaction
  checkedOut,  \* pool clients checked out and not yet released
  ops,         \* operations started so far
  failures,    \* store calls that failed by injection so far
  commits,     \* history: committed operations per case id
  last,        \* history: how the operation that finished last ended (cleared
               \* when the next operation starts)
  scenario,    \* history: progress of the run through the end-to-end example
  diff         \* the changes-saved page: the snapshots given to buildChangedRows
               \* and the rows it returned

engineVars ==
  <<cases, events, seq, nextCaseId, clock, tx, checkedOut, ops, failures, commits, last>>

vars == <<engineVars, scenario, diff>>

Idle ==
  [pc |-> "idle", op |-> "none", id |-> 0, args |-> Null, now |-> 0,
   beforeRow |-> Null, readVer |-> 0, toState |-> Null,
   written |-> Null, updated |-> Null, pending |-> Null, err |-> Null]

NoLast ==
  [op |-> "none", outcome |-> "none", result |-> Null, err |-> Null, releases |-> 0]

\* No page has been rendered.
NoDiff == [before |-> Null, after |-> Null, rows |-> Null]

Init ==
  /\ cases = << >>
  /\ events = {}
  /\ seq = 0
  /\ nextCaseId = 1
  /\ clock = 0
  /\ tx = [p \in Procs |-> Idle]
  /\ checkedOut = 0
  /\ ops = 0
  /\ failures = 0
  /\ commits = [i \in CaseIds |-> 0]
  /\ last = NoLast
  /\ scenario = 0
  /\ diff = NoDiff

\* The transaction of q holds the row lock of case id: it has written the row
\* and has neither committed nor rolled back.
HoldsLock(q, id) == tx[q].written # Null /\ tx[q].id = id

RowLocked(id) == \E q \in Procs : HoldsLock(q, id)

\* How an operation ends: client.release() in finally, then the return or throw.
Finished(p, outcome, result, err) ==
  [op |-> tx[p].op, outcome |-> outcome, result |-> result, err |-> err, releases |-> 1]

\* ---------------------------------------------------------------- actions
\* pool.connect(): a request starts an engine operation on a client of its own.
\* The lowest idle request slot is taken, so that equal runs are not repeated;
\* the id the caller passes is that of a case some createCase has inserted, or
\* the next id no case has yet (every absent id behaves like that one).
Connect(p, op, id, a) ==
  /\ tx[p].pc = "idle"
  /\ \A q \in Procs : q < p => tx[q].pc # "idle"
  /\ ops < MaxOps
  /\ op = "createCase" => id = 0
  /\ op # "createCase" => id \in CaseIds /\ id <= nextCaseId
  /\ tx' = [tx EXCEPT ![p] = [Idle EXCEPT !.pc = "begin", !.op = op, !.id = id, !.args = a]]
  /\ checkedOut' = checkedOut + 1
  /\ ops' = ops + 1
  /\ last' = NoLast
  /\ UNCHANGED <<cases, events, seq, nextCaseId, clock, failures, commits>>

\* client.query("BEGIN").  createCase goes on to its INSERT, the others to
\* their SELECT.
Begin(p) ==
  /\ tx[p].pc = "begin"
  /\ clock' = clock + 1
  /\ tx' = [tx EXCEPT ![p].now = clock + 1,
                      ![p].pc = IF tx[p].op = "createCase" THEN "write" ELSE "select"]
  /\ UNCHANGED <<cases, events, seq, nextCaseId, checkedOut, ops, failures, commits, last>>

\* SELECT * FROM cases WHERE id = $1 (transitionCase: SELECT id, state), and
\* the code up to the next await: not found issues ROLLBACK; transitionCase
\* computes fromState and toState.
SelectCurrent(p) ==
  /\ tx[p].pc = "select"
  /\ LET id == tx[p].id
         found == id \in DOMAIN cases
         row == IF tx[p].op = "transitionCase"
                  THEN Returning(cases[id], {"state"})
                  ELSE cases[id]
     IN tx' = IF found
                THEN [tx EXCEPT ![p].pc = "write",
                                ![p].beforeRow = row,
                                ![p].readVer = commits[id],
                                ![p].toState =
                                   IF tx[p].op = "transitionCase"
                                     THEN transitionToState(row["state"], tx[p].args.eventType)
                                     ELSE Null]
                ELSE [tx EXCEPT ![p].pc = "nf_rollback"]
  /\ UNCHANGED <<cases, events, seq, nextCaseId, clock, checkedOut, ops, failures, commits, last>>

\* Mutant of NotFoundRollback: not found is thrown, not returned.
NotFoundThrows(p) ==
  /\ tx[p].pc = "nf_rollback"
  /\ last' = Finished(p, "threw", Null, Some("not found"))
  /\ tx' = [tx EXCEPT ![p] = Idle]
  /\ checkedOut' = checkedOut - 1
  /\ UNCHANGED <<cases, events, seq, nextCaseId, clock, ops, failures, commits>>

\* The ROLLBACK of the not-found branch, then return null (finally releases).
NotFoundRollback(p) ==
  /\ tx[p].pc = "nf_rollback"
  /\ last' = Finished(p, "returned", Null, Null)
  /\ tx' = [tx EXCEPT ![p] = Idle]
  /\ checkedOut' = checkedOut - 1
  /\ UNCHANGED <<cases, events, seq, nextCaseId, clock, ops, failures, commits>>

\* Mutant of WrittenRow: updatePersonDetails saves the row it read with the
\* person group replaced.
WrittenRowPersonOverRead(t, cur) ==
  CASE t.op = "createCase" -> InsertedRow(createCaseValues(t.args), t.now)
    [] t.op = "updateCaseDetails" -> UpdatedRow(cur, updateCaseDetailsSet(t.args, t.now))
    [] t.op = "updatePersonDetails" ->
         UpdatedRow(t.beforeRow, updatePersonDetailsSet(t.args, t.now))
    [] t.op = "updateClinicalDetails" -> UpdatedRow(cur, updateClinicalDetailsSet(t.args, t.now))
    [] t.op = "updateLocationDetails" -> UpdatedRow(cur, updateLocationDetailsSet(t.args, t.now))
    [] t.op = "transitionCase" -> UpdatedRow(cur, transitionCaseSet(t.toState, t.args, t.now))

\* Mutant of WrittenRow: a field-group update writes back the whole row it read
\* with its group replaced, not only the columns of its group.
WrittenRowFromRead(t, cur) ==
  CASE t.op = "createCase" -> InsertedRow(createCaseValues(t.args), t.now)
    [] t.op = "updateCaseDetails" ->
         UpdatedRow(t.beforeRow, updateCaseDetailsSet(t.args, t.now))
    [] t.op = "updatePersonDetails" ->
         UpdatedRow(t.beforeRow, updatePersonDetailsSet(t.args, t.now))
    [] t.op = "updateClinicalDetails" ->
         UpdatedRow(t.beforeRow, updateClinicalDetailsSet(t.args, t.now))
    [] t.op = "updateLocationDetails" ->
         UpdatedRow(t.beforeRow, updateLocationDetailsSet(t.args, t.now))
    [] t.op = "transitionCase" -> UpdatedRow(cur, transitionCaseSet(t.toState, t.args, t.now))

\* The row the operation's INSERT or UPDATE of cases writes, given the latest
\* committed version cur of the row (Null for createCase).
WrittenRow(t, cur) ==
  CASE t.op = "createCase" -> InsertedRow(createCaseValues(t.args), t.now)
    [] t.op = "updateCaseDetails" -> UpdatedRow(cur, updateCaseDetailsSet(t.args, t.now))
    [] t.op = "updatePersonDetails" -> UpdatedRow(cur, updatePersonDetailsSet(t.args, t.now))
    [] t.op = "updateClinicalDetails" -> UpdatedRow(cur, updateClinicalDetailsSet(t.args, t.now))
    [] t.op = "updateLocationDetails" -> UpdatedRow(cur, updateLocationDetailsSet(t.args, t.now))
    [] t.op = "transitionCase" -> UpdatedRow(cur, transitionCaseSet(t.toState, t.args, t.now))

\* The RETURNING list of the operation's write.
ReturningOf(op) == IF op = "transitionCase" THEN TransitionReturningCols ELSE ReturningCols

\* INSERT INTO cases ... RETURNING (createCase) or UPDATE cases ... WHERE id = $1
\* RETURNING (the others).  The UPDATE waits while another transaction holds the
\* row lock and then works on the latest committed row.  A row that violates a
\* notNull constraint makes the statement fail: the catch block issues ROLLBACK.
WriteCase(p) ==
  /\ tx[p].pc = "write"
  /\ tx[p].op = "createCase" => nextCaseId <= MaxCases
  /\ tx[p].op # "createCase" => ~RowLocked(tx[p].id)
  /\ LET create == tx[p].op = "createCase"
         id == IF create THEN nextCaseId ELSE tx[p].id
         row == WrittenRow(tx[p], IF create THEN Null ELSE cases[id])
     IN /\ tx' = IF SatisfiesNotNull(row)
                   THEN [tx EXCEPT ![p].pc = "event", ![p].id = id, ![p].written = row,
                                   ![p].updated = Returning(row, ReturningOf(tx[p].op))]
                   ELSE [tx EXCEPT ![p].pc = "catch", ![p].err = Some("not_null_violation")]
        /\ nextCaseId' = IF create THEN nextCaseId + 1 ELSE nextCaseId
  /\ UNCHANGED <<cases, events, seq, clock, checkedOut, ops, failures, commits, last>>

\* Mutant of EventOf: a field-group update snapshots the row it read as after.
EventOfStaleAfter(t, eventId) ==
  CASE t.op = "createCase" -> createCaseEvent(eventId, t.id, t.updated, t.args)
    [] t.op = "transitionCase" ->
         transitionCaseEvent(eventId, t.id, t.beforeRow["state"], t.toState, t.args)
    [] OTHER ->
         insertEvent(eventId, t.id, EditEventType(t.op), t.updated["state"], t.args.actorId,
                     Null,
                     Some([before |-> pickCaseSnapshot(t.beforeRow),
                           after |-> pickCaseSnapshot(t.beforeRow)]))

\* Mutant of EventOf: a field-group update passes the state of the row it
\* read, not of the row it wrote, to insertEvent.
EventOfStateAsRead(t, eventId) ==
  CASE t.op = "createCase" -> createCaseEvent(eventId, t.id, t.updated, t.args)
    [] t.op = "transitionCase" ->
         transitionCaseEvent(eventId, t.id, t.beforeRow["state"], t.toState, t.args)
    [] OTHER ->
         insertEvent(eventId, t.id, EditEventType(t.op), t.beforeRow["state"], t.args.actorId,
                     Null,
                     Some([before |-> pickCaseSnapshot(t.beforeRow),
                           after |-> pickCaseSnapshot(t.updated)]))

\* Mutant of EventOf: a field-group update records no before snapshot.
EventOfBeforeLost(t, eventId) ==
  CASE t.op = "createCase" -> createCaseEvent(eventId, t.id, t.updated, t.args)
    [] t.op = "transitionCase" ->
         transitionCaseEvent(eventId, t.id, t.beforeRow["state"], t.toState, t.args)
    [] OTHER ->
         insertEvent(eventId, t.id, EditEventType(t.op), t.updated["state"], t.args.actorId,
                     Null,
                     Some([before |-> Null,
                           after |-> pickCaseSnapshot(t.updated)]))

\* The row of case_events the operation inserts, with id eventId.
EventOf(t, eventId) ==
  CASE t.op = "createCase" -> createCaseEvent(eventId, t.id, t.updated, t.args)
    [] t.op = "transitionCase" ->
         transitionCaseEvent(eventId, t.id, t.beforeRow["state"], t.toState, t.args)
    [] OTHER ->
         insertEvent(eventId, t.id, EditEventType(t.op), t.updated["state"], t.args.actorId,
                     Null,
                     Some([before |-> pickCaseSnapshot(t.beforeRow),
                           after |-> pickCaseSnapshot(t.updated)]))

\* INSERT INTO case_events: draws the next id of the sequence.
InsertEventRow(p) ==
  /\ tx[p].pc = "event"
  /\ seq' = seq + 1
  /\ LET e == EventOf(tx[p], seq + 1)
     IN tx' = IF EventSatisfiesNotNull(e)
                THEN [tx EXCEPT ![p].pc = "commit", ![p].pending = e]
                ELSE [tx EXCEPT ![p].pc = "catch", ![p].err = Some("not_null_violation")]
  /\ UNCHANGED <<cases, events, nextCaseId, clock, checkedOut, ops, failures, commits, last>>

\* What the operation returns after COMMIT.
ResultOf(t) ==
  IF t.op \in UpdateOps
    THEN Some([case |-> t.updated, eventId |-> t.pending.id])
    ELSE Some(t.updated)

\* The committed tables after the transaction of t commits.
CommittedCases(cs, t) ==
  IF t.id \in DOMAIN cs THEN [cs EXCEPT ![t.id] = t.written] ELSE cs @@ (t.id :> t.written)

\* Mutant of CommittedEvents: the event insert is lost.
CommittedEventsLost(es, t) == es

\* Mutant of CommittedEvents: the insert replaces the earlier events of the
\* same case.
CommittedEventsReplaced(es, t) ==
  {e \in es : e.case_id # t.pending.case_id} \cup {t.pending}

CommittedEvents(es, t) == es \cup {t.pending}

\* client.query("COMMIT"): the writes of the transaction become visible
\* together; then the operation returns (finally releases the client).
Commit(p) ==
  /\ tx[p].pc = "commit"
  /\ cases' = CommittedCases(cases, tx[p])
  /\ events' = CommittedEvents(events, tx[p])
  /\ commits' = [commits EXCEPT ![tx[p].id] = @ + 1]
  /\ last' = Finished(p, "returned", ResultOf(tx[p]), Null)
  /\ tx' = [tx EXCEPT ![p] = Idle]
  /\ checkedOut' = checkedOut - 1
  /\ UNCHANGED <<seq, nextCaseId, clock, ops, failures>>

\* The store call the operation awaits.
AwaitedCall(t) ==
  CASE t.pc = "begin" -> "BEGIN"
    [] t.pc = "select" -> "SELECT"
    [] t.pc = "nf_rollback" -> "ROLLBACK"
    [] t.pc = "write" -> IF t.op = "createCase" THEN "INSERT cases" ELSE "UPDATE cases"
    [] t.pc = "event" -> "INSERT case_events"
    [] t.pc = "commit" -> "COMMIT"
    [] t.pc = "catch" -> "ROLLBACK"
    [] OTHER -> "none"

\* A store call inside the try block fails (connection loss, deadlock, ...):
\* the statement has no effect and the catch block issues ROLLBACK.  A failed
\* COMMIT commits nothing.
StoreFailure(p) ==
  /\ tx[p].pc \in {"begin", "select", "nf_rollback", "write", "event", "commit"}
  /\ failures < MaxFailures
  /\ failures' = failures + 1
  /\ tx' = [tx EXCEPT ![p].pc = "catch", ![p].err = Some(AwaitedCall(tx[p]))]
  /\ UNCHANGED <<cases, events, seq, nextCaseId, clock, checkedOut, ops, commits, last>>

\* Mutant of CatchRollback: the catch block ends the transaction without
\* discarding its writes.
CatchRollbackKeepsWrites(p) ==
  /\ tx[p].pc = "catch"
  /\ cases' = IF tx[p].written # Null THEN CommittedCases(cases, tx[p]) ELSE cases
  /\ events' = IF tx[p].pending # Null THEN CommittedEvents(events, tx[p]) ELSE events
  /\ last' = Finished(p, "threw", Null, tx[p].err)
  /\ tx' = [tx EXCEPT ![p] = Idle]
  /\ checkedOut' = checkedOut - 1
  /\ UNCHANGED <<seq, nextCaseId, clock, ops, failures, commits>>

\* The ROLLBACK of the catch block: the transaction's writes are discarded and
\* its lock is freed; then throw e (finally releases the client).
CatchRollback(p) ==
  /\ tx[p].pc = "catch"
  /\ last' = Finished(p, "threw", Null, tx[p].err)
  /\ tx' = [tx EXCEPT ![p] = Idle]
  /\ checkedOut' = checkedOut - 1
  /\ UNCHANGED <<cases, events, seq, nextCaseId, clock, ops, failures, commits>>

\* Mutant of CatchRollbackFails: the client is not released when the ROLLBACK
\* of the catch block throws.
CatchRollbackFailsLeaks(p) ==
  /\ tx[p].pc = "catch"
  /\ failures < MaxFailures + 1
  /\ failures' = failures + 1
  /\ last' = Finished(p, "threw", Null, Some("ROLLBACK failed"))
  /\ tx' = [tx EXCEPT ![p] = Idle]
  /\ UNCHANGED <<cases, events, seq, nextCaseId, clock, checkedOut, ops, commits>>

\* The ROLLBACK of the catch block fails too (the connection is lost, so the
\* store aborts the transaction): the await throws the ROLLBACK's own error in
\* place of e (finally releases the client).
CatchRollbackFails(p) ==
  /\ tx[p].pc = "catch"
  /\ failures < MaxFailures + 1
  /\ failures' = failures + 1
  /\ last' = Finished(p, "threw", Null, Some("ROLLBACK failed"))
  /\ tx' = [tx EXCEPT ![p] = Idle]
  /\ checkedOut' = checkedOut - 1
  /\ UNCHANGED <<cases, events, seq, nextCaseId, clock, ops, commits>>

\* ---------------------------------------------------------------- HTTP handlers
\* The POST routes that call the engine.
Routes ==
  {"POST /cases/new", "POST /cases/:id/person", "POST /cases/:id/clinical",
   "POST /cases/:id/location", "POST /cases/:id/submit",
   "POST /cases/:id/approve", "POST /cases/:id/return"}

\* Form bodies (req.body), as small sets; a field the form does not carry is
\* Null.
NewForms ==
  {[title |-> Some("Flu cluster"), description |-> Null],
   [title |-> Some(" "), description |-> Some("notes")]}

PersonForms ==
  LET full == [person_name |-> Some("Jane Doe"), nhs_number |-> Some("123 456 7890"),
               dob_day |-> Some("1"), dob_month |-> Some("1"), dob_year |-> Some("1990")]
  IN {full,
      [full EXCEPT !.dob_month = Some("")],
      [full EXCEPT !.dob_year = Some("abc")],
      [full EXCEPT !.dob_day = Some("0")],
      [full EXCEPT !.dob_day = Null, !.dob_month = Null, !.dob_year = Null],
      [full EXCEPT !.person_name = Some(" ")]}

ClinicalForms ==
  LET full == [symptoms_day |-> Some("2"), symptoms_month |-> Some("3"),
               symptoms_year |-> Some("2024")]
  IN {full,
      [full EXCEPT !.symptoms_day = Null],
      [full EXCEPT !.symptoms_month = Some("0")]}

LocationForms ==
  {[postcode |-> Some("AB1 2CD"), organisation |-> Some("")],
   [postcode |-> Some(" "), organisation |-> Some("Trust")]}

ReturnForms == {[comment |-> Some("incomplete")], [comment |-> Some(" ")]}

FormsOf(route) ==
  CASE route = "POST /cases/new" -> NewForms
    [] route = "POST /cases/:id/person" -> PersonForms
    [] route = "POST /cases/:id/clinical" -> ClinicalForms
    [] route = "POST /cases/:id/location" -> LocationForms
    [] route = "POST /cases/:id/submit" -> {Null}
    [] route = "POST /cases/:id/approve" -> {Null}
    [] route = "POST /cases/:id/return" -> ReturnForms

\* String.prototype.trim on the strings the forms carry.
Trim(s) == IF s = " " THEN "" ELSE s

\* (req.body.k || "").trim()
FormText(v) == IF v = Null THEN "" ELSE Trim(v[1])

\* Number(s) on the strings the forms carry; Null stands for NaN.
NumberOf(s) ==
  CASE s = "" -> Some(0)
    [] s = "0" -> Some(0)
    [] s = "1" -> Some(1)
    [] s = "2" -> Some(2)
    [] s = "3" -> Some(3)
    [] s = "1990" -> Some(1990)
    [] s = "2024" -> Some(2024)
    [] OTHER -> Null

\* Number(req.body.k || 0) || null
FormNumber(v) ==
  LET n == IF v = Null \/ v = Some("") THEN Some(0) ELSE NumberOf(v[1])
  IN IF n = Null \/ n = Some(0) THEN Null ELSE n

\* The engine operation each route calls.
HandlerOp(route) ==
  CASE route = "POST /cases/new" -> "createCase"
    [] route = "POST /cases/:id/person" -> "updatePersonDetails"
    [] route = "POST /cases/:id/clinical" -> "updateClinicalDetails"
    [] route = "POST /cases/:id/location" -> "updateLocationDetails"
    [] route = "POST /cases/:id/submit" -> "transitionCase"
    [] route = "POST /cases/:id/approve" -> "transitionCase"
    [] route = "POST /cases/:id/return" -> "transitionCase"

\* The arguments each route passes to its engine operation.
HandlerArgs(route, body) ==
  CASE route = "POST /cases/new" ->
         [title |-> Some(FormText(body.title)),
          description |-> Some(FormText(body.description)),
          createdBy |-> Some("local-user")]
    [] route = "POST /cases/:id/person" ->
         [personName |-> Some(FormText(body.person_name)),
          nhsNumber |-> Some(FormText(body.nhs_number)),
          dobDay |-> FormNumber(body.dob_day),
          dobMonth |-> FormNumber(body.dob_month),
          dobYear |-> FormNumber(body.dob_year),
          actorId |-> Some("local-user")]
    [] route = "POST /cases/:id/clinical" ->
         [symptomsDay |-> FormNumber(body.symptoms_day),
          symptomsMonth |-> FormNumber(body.symptoms_month),
          symptomsYear |-> FormNumber(body.symptoms_year),
          actorId |-> Some("local-user")]
    [] route = "POST /cases/:id/location" ->
         [postcode |-> Some(FormText(body.postcode)),
          organisation |-> Some(FormText(body.organisation)),
          actorId |-> Some("local-user")]
    [] route = "POST /cases/:id/submit" ->
         [eventType |-> Some("SUBMIT_FOR_REVIEW"), comment |-> Null,
          actorId |-> Some("local-user")]
    [] route = "POST /cases/:id/approve" ->
         [eventType |-> Some("REVIEW_APPROVE"), comment |-> Null,
          actorId |-> Some("local-user")]
    [] route = "POST /cases/:id/return" ->
         [eventType |-> Some("REVIEW_RETURN"), comment |-> Some(FormText(body.comment)),
          actorId |-> Some("local-user")]

\* Mutant of PersonErrors: the date of birth is checked by its day alone.
PersonErrorsDayOnly(a) ==
  (IF a.personName = Some("") THEN <<"#person_name">> ELSE << >>)
    \o (IF a.nhsNumber = Some("") THEN <<"#nhs_number">> ELSE << >>)
    \o (IF a.dobDay = Null THEN <<"#dob">> ELSE << >>)

\* POST /cases/:id/person: the errors list, by href.
PersonErrors(a) ==
  (IF a.personName = Some("") THEN <<"#person_name">> ELSE << >>)
    \o (IF a.nhsNumber = Some("") THEN <<"#nhs_number">> ELSE << >>)
    \o (IF a.dobDay = Null \/ a.dobMonth = Null \/ a.dobYear = Null
          THEN <<"#dob">> ELSE << >>)

\* POST /cases/:id/clinical: the errors list.
ClinicalErrors(a) ==
  IF a.symptomsDay = Null \/ a.symptomsMonth = Null \/ a.symptomsYear = Null
    THEN <<"#symptoms_date">> ELSE << >>

\* POST /cases/:id/location: the errors list.
LocationErrors(a) == IF a.postcode = Some("") THEN <<"#postcode">> ELSE << >>

\* POST /cases/new: if (!title).
NewErrors(a) == IF a.title = Some("") THEN <<"#title">> ELSE << >>

\* POST /cases/:id/return: if (!comment).
ReturnErrors(a) == IF a.comment = Some("") THEN <<"#comment">> ELSE << >>

HandlerErrors(route, a) ==
  CASE route = "POST /cases/new" -> NewErrors(a)
    [] route = "POST /cases/:id/person" -> PersonErrors(a)
    [] route = "POST /cases/:id/clinical" -> ClinicalErrors(a)
    [] route = "POST /cases/:id/location" -> LocationErrors(a)
    [] route = "POST /cases/:id/submit" -> << >>
    [] route = "POST /cases/:id/approve" -> << >>
    [] route = "POST /cases/:id/return" -> ReturnErrors(a)

\* The routes that await getCaseById and answer 404 before they validate.
ReadsCaseFirst(route) ==
  route \in {"POST /cases/:id/person", "POST /cases/:id/clinical",
             "POST /cases/:id/location", "POST /cases/:id/return"}

\* The status a handler answers with before it calls the engine, "" when it
\* goes on to call the engine.
HandlerStatus(route, id, a) ==
  IF ReadsCaseFirst(route) /\ id \notin DOMAIN cases THEN "404"
  ELSE IF HandlerErrors(route, a) # << >> THEN "400"
  ELSE ""

\* A handler answers 404 or 400 without calling the engine.  Such a request
\* writes nothing and reads committed rows only, so it commutes with the steps
\* of the operations in progress: it is taken between operations.
HandlerResponds(route, id, body) ==
  LET a == HandlerArgs(route, body)
  IN /\ \A q \in Procs : tx[q].pc = "idle"
     /\ route = "POST /cases/new" => id = 0
     /\ route # "POST /cases/new" => id \in CaseIds
     /\ HandlerStatus(route, id, a) # ""
     /\ last' = [op |-> route, outcome |-> HandlerStatus(route, id, a), result |-> Null,
                 err |-> Some(HandlerErrors(route, a)), releases |-> 0]
     /\ UNCHANGED <<cases, events, seq, nextCaseId, clock, tx, checkedOut, ops,
                    failures, commits>>

\* A handler calls its engine operation (rows are never deleted, so the case
\* getCaseById found is still there when the operation starts).
HandlerCalls(p, route, id, body) ==
  LET a == HandlerArgs(route, body)
  IN /\ HandlerStatus(route, id, a) = ""
     /\ Connect(p, HandlerOp(route), id, a)

\* ---------------------------------------------------------------- changes-saved page
\* The elements of a sequence.
Range(f) == {f[i] : i \in DOMAIN f}

\* snapshot[k] ?? null: a key the snapshot does not carry reads as null.
Get(snapshot, k) == IF k \in DOMAIN snapshot THEN snapshot[k] ELSE Null

\* String(v ?? "") on a text value.
StringOf(v) == IF v = Null THEN "" ELSE v[1]

\* What a cell shows: a text, or a date in en-GB long form (day, month name,
\* year).
ShownText(s) == [text |-> s, date |-> << >>]
ShownDate(d, monthName, y) == [text |-> "", date |-> <<d, monthName, y>>]

\* toLocaleDateString("en-GB", {month: "long"}): the name of month m.
MonthName(m) ==
  CASE m = 1 -> "January" [] m = 2 -> "February" [] m = 3 -> "March"
    [] m = 4 -> "April" [] m = 5 -> "May" [] m = 6 -> "June"
    [] m = 7 -> "July" [] m = 8 -> "August" [] m = 9 -> "September"
    [] m = 10 -> "October" [] m = 11 -> "November" [] m = 12 -> "December"

\* formatDMY: "" when a part is missing or zero, else the date in long form
\* (for the days of a month that exist, which is what the snapshots carry).
formatDMY(day, month, year) ==
  IF day = Null \/ month = Null \/ year = Null
       \/ day = Some(0) \/ month = Some(0) \/ year = Some(0)
    THEN ShownText("")
    ELSE ShownDate(day[1], MonthName(month[1]), year[1])

labelMap(k) ==
  CASE k = "person_name" -> "Full name"
    [] k = "nhs_number" -> "NHS number"
    [] k = "dob_day" -> "Date of birth"
    [] k = "symptoms_day" -> "Symptoms start date"
    [] k = "postcode" -> "Postcode"
    [] k = "organisation" -> "Organisation"
    [] k = "title" -> "Title"
    [] k = "description" -> "Description"
    [] OTHER -> k

\* x || "Not provided" on what formatDMY returned.
OrNotProvided(shown) == IF shown = ShownText("") THEN ShownText("Not provided") ELSE shown

displayValue(key, snapshot) ==
  CASE key = "dob_day" ->
         OrNotProvided(formatDMY(Get(snapshot, "dob_day"), Get(snapshot, "dob_month"),
                                 Get(snapshot, "dob_year")))
    [] key = "symptoms_day" ->
         OrNotProvided(formatDMY(Get(snapshot, "symptoms_day"),
                                 Get(snapshot, "symptoms_month"),
                                 Get(snapshot, "symptoms_year")))
    [] OTHER ->
         LET v == Get(snapshot, key)
         IN IF v = Null \/ v = Some("") THEN ShownText("Not provided")
            ELSE ShownText(StringOf(v))

simpleKeys ==
  <<"person_name", "nhs_number", "postcode", "organisation", "title", "description">>

\* One row of the summary list: the label, and the From and To values.
ChangedRow(k, before, after) ==
  [key |-> labelMap(k), from |-> displayValue(k, before), to |-> displayValue(k, after)]

\* Mutant of PartsChanged: a date counts as changed only when all three of
\* its parts differ.
PartsChangedAll(before, after, parts) ==
  \A k \in parts : Get(before, k) # Get(after, k)

\* dobChanged / symptomsChanged: some part differs (!== after ?? null).
PartsChanged(before, after, parts) ==
  \E k \in parts : Get(before, k) # Get(after, k)

\* buildChangedRows: the rows of the simple keys whose texts differ, in the
\* order of simpleKeys, then one row for the date of birth and one for the
\* symptoms date when changed.
buildChangedRows(before, after) ==
  LET changed == SelectSeq(simpleKeys,
                           LAMBDA k : StringOf(Get(before, k)) # StringOf(Get(after, k)))
      simple == [i \in 1..Len(changed) |-> ChangedRow(changed[i], before, after)]
      dob == IF PartsChanged(before, after, {"dob_day", "dob_month", "dob_year"})
               THEN <<ChangedRow("dob_day", before, after)>> ELSE << >>
      symptoms == IF PartsChanged(before, after,
                                  {"symptoms_day", "symptoms_month", "symptoms_year"})
                    THEN <<ChangedRow("symptoms_day", before, after)>> ELSE << >>
  IN simple \o dob \o symptoms

\* The snapshots the page is rendered from, as small sets.  FullSnapshot has
\* every key of the page; OneKeyChanged are its variants in one simple key and
\* one date part; the rest are the shapes event_data can take (no snapshot,
\* every value null, empty texts, a snapshot of some keys only).
DiffKeys ==
  {"person_name", "nhs_number", "postcode", "organisation", "title", "description",
   "dob_day", "dob_month", "dob_year", "symptoms_day", "symptoms_month", "symptoms_year"}

FullSnapshot ==
  [person_name |-> Some("Jane Doe"), nhs_number |-> Some("123 456 7890"),
   postcode |-> Some("AB1 2CD"), organisation |-> Some("Trust"),
   title |-> Some("Flu cluster"), description |-> Some("notes"),
   dob_day |-> Some(15), dob_month |-> Some(3), dob_year |-> Some(1990),
   symptoms_day |-> Some(2), symptoms_month |-> Some(3), symptoms_year |-> Some(2024)]

OneKeyChanged ==
  {FullSnapshot} \cup
  {[FullSnapshot EXCEPT ![k] = v] :
     k \in Range(simpleKeys), v \in {Null, Some(""), Some("other")}}

TwoKeysChanged ==
  {[s EXCEPT ![k] = v] :
     s \in OneKeyChanged,
     k \in {"dob_day", "dob_month", "dob_year",
            "symptoms_day", "symptoms_month", "symptoms_year"},
     v \in {Null, Some(1)}}

EmptySnapshot == [k \in {} |-> Null]
NullSnapshot == [k \in DiffKeys |-> Null]

AfterSnapshots == OneKeyChanged \cup TwoKeysChanged \cup {EmptySnapshot, NullSnapshot}

BeforeSnapshots ==
  {FullSnapshot, EmptySnapshot, NullSnapshot,
   [k \in {"title", "description"} |-> FullSnapshot[k]],
   [FullSnapshot EXCEPT !.organisation = Some(""), !.description = Null],
   [FullSnapshot EXCEPT !.dob_day = Some(1), !.dob_month = Some(1), !.dob_year = Some(1991)],
   [NullSnapshot EXCEPT !.dob_year = Some(1990), !.symptoms_day = Some(0)]}

\* GET /cases/:id/changes-saved/:eventId renders the rows of the two snapshots
\* of an event.
RenderChanges ==
  /\ diff.rows = Null
  /\ diff' = [diff EXCEPT !.rows = Some(buildChangedRows(diff.before, diff.after))]
  /\ UNCHANGED <<engineVars, scenario>>

\* ---------------------------------------------------------------- end-to-end example
\* The three calls of the end-to-end example, in order: createCase with title
\* "Flu cluster", updatePersonDetails of that case with name "Jane Doe",
\* transitionCase of that case with SUBMIT_FOR_REVIEW.
ScenarioCall(k, t) ==
  CASE k = 1 -> t.op = "createCase" /\ t.args.title = Some("Flu cluster")
    [] k = 2 -> t.op = "updatePersonDetails" /\ t.id = 1
                  /\ t.args.personName = Some("Jane Doe")
    [] k = 3 -> t.op = "transitionCase" /\ t.id = 1
                  /\ t.args.eventType = Some("SUBMIT_FOR_REVIEW")
    [] OTHER -> FALSE

\* The value of scenario after a step of the engine: 2k when the first k calls
\* of the example, and nothing else, have run one after another and committed;
\* 2k+1 while call k+1 runs alone and without failure; -1 once the run has left
\* the example (another call, an overlapping call, not found, a failure).
ScenarioAfter ==
  LET connects == {q \in Procs : tx[q].pc = "idle" /\ tx'[q].pc # "idle"}
      stepping == {q \in Procs : tx'[q] # tx[q]}
  IN IF scenario = -1 THEN -1
     ELSE IF scenario % 2 = 0
       THEN IF /\ scenario < 6
               /\ \A q \in Procs : tx[q].pc = "idle"
               /\ \E q \in connects : ScenarioCall(scenario \div 2 + 1, tx'[q])
              THEN scenario + 1
              ELSE -1
       ELSE IF connects # {} THEN -1
            ELSE IF \E q \in stepping : tx'[q].pc \in {"catch", "nf_rollback"} THEN -1
            ELSE IF \E q \in stepping : tx[q].pc = "commit" /\ tx'[q].pc = "idle"
              THEN scenario + 1
              ELSE scenario

\* What every step of the engine does to the history of the example and to the
\* changes-saved page.
Observed == scenario' = ScenarioAfter /\ UNCHANGED diff

Next ==
  \/ /\ \E p \in Procs, op \in EngineOps :
          \E id \in 0..MaxCases, a \in InputsOf(op) : Connect(p, op, id, a)
     /\ Observed
  \/ (\E p \in Procs : Begin(p)) /\ Observed
  \/ (\E p \in Procs : SelectCurrent(p)) /\ Observed
  \/ (\E p \in Procs : NotFoundRollback(p)) /\ Observed
  \/ (\E p \in Procs : WriteCase(p)) /\ Observed
  \/ (\E p \in Procs : InsertEventRow(p)) /\ Observed
  \/ (\E p \in Procs : Commit(p)) /\ Observed
  \/ (\E p \in Procs : StoreFailure(p)) /\ Observed
  \/ (\E p \in Procs : CatchRollback(p)) /\ Observed
  \/ (\E p \in Procs : CatchRollbackFails(p)) /\ Observed

Spec == Init /\ [][Next]_vars

\* The program as served: every engine operation is called by a handler.
HandlerNext ==
  \/ /\ \E p \in Procs, route \in Routes :
          \E id \in 0..MaxCases, body \in FormsOf(route) : HandlerCalls(p, route, id, body)
     /\ Observed
  \/ /\ \E route \in Routes :
          \E id \in 0..MaxCases, body \in FormsOf(route) : HandlerResponds(route, id, body)
     /\ UNCHANGED <<scenario, diff>>
  \/ (\E p \in Procs : Begin(p)) /\ Observed
  \/ (\E p \in Procs : SelectCurrent(p)) /\ Observed
  \/ (\E p \in Procs : NotFoundRollback(p)) /\ Observed
  \/ (\E p \in Procs : WriteCase(p)) /\ Observed
  \/ (\E p \in Procs : InsertEventRow(p)) /\ Observed
  \/ (\E p \in Procs : Commit(p)) /\ Observed
  \/ (\E p \in Procs : StoreFailure(p)) /\ Observed
  \/ (\E p \in Procs : CatchRollback(p)) /\ Observed
  \/ (\E p \in Procs : CatchRollbackFails(p)) /\ Observed

HandlerSpec == Init /\ [][HandlerNext]_vars

\* The changes-saved page on its own: any two snapshots, rendered.
DiffInit ==
  /\ cases = << >>
  /\ events = {}
  /\ seq = 0
  /\ nextCaseId = 1
  /\ clock = 0
  /\ tx = [p \in Procs |-> Idle]
  /\ checkedOut = 0
  /\ ops = 0
  /\ failures = 0
  /\ commits = [i \in CaseIds |-> 0]
  /\ last = NoLast
  /\ scenario = 0
  /\ \E b \in BeforeSnapshots, a \in AfterSnapshots :
       diff = [before |-> b, after |-> a, rows |-> Null]

DiffNext == RenderChanges

DiffSpec == DiffInit /\ [][DiffNext]_vars

\* ================================================================ properties
\* Request p takes a step.
Steps(p) == tx'[p] # tx[p]

\* Request p's COMMIT succeeds in this step.
CommitsNow(p) == tx[p].pc = "commit" /\ tx'[p].pc = "idle"

\* The rows this step adds to the committed case_events table.
NewEvents == events' \ events

\* Every case row other than id is as it was, and no row appears or vanishes
\* other than id.
OtherRowsKept(id) ==
  /\ DOMAIN cases' \ {id} = DOMAIN cases \ {id}
  /\ \A j \in DOMAIN cases \ {id} : cases'[j] = cases[j]

EventsOfCase(id) == {e \in events : e.case_id = id}

EditEventTypes ==
  {Some("EDIT_DETAILS"), Some("EDIT_PERSON"), Some("EDIT_CLINICAL"), Some("EDIT_LOCATION")}

\* ---------------------------------------------------------------- C1
\* C1: a step of an operation changes the committed cases and case_events
\* tables only if it is that operation's successful COMMIT; an operation in
\* which a store call failed has err set, sits in its catch block and never
\* commits, so the tables are the same after it as before every one of its
\* steps (a failed event insert after the row update included).
C1_RollbackIsAtomic ==
  [][\A p \in Procs :
       /\ (Steps(p) /\ ~CommitsNow(p)) => (cases' = cases /\ events' = events)
       /\ (tx[p].err # Null /\ Steps(p)) => (tx[p].pc = "catch" /\ tx'[p].pc = "idle")
       /\ tx'[p].err # Null => tx'[p].pc = "catch"]_vars

\* C1 witness: updatePersonDetails ended by throwing the failure of its event
\* insert, and the case row holds no person name.
C1_Witness ==
  /\ last.op = "updatePersonDetails"
  /\ last.outcome = "threw"
  /\ last.err = Some("INSERT case_events")
  /\ 1 \in DOMAIN cases
  /\ cases[1]["person_name"] = Null
  /\ Cardinality(events) = 1

\* ---------------------------------------------------------------- C2
\* C2: in every reachable state the number of committed events of a case is
\* the number of operations committed on it (creation included), and no two
\* committed events share an id.
C2_OneEventPerCommittedOperation ==
  /\ \A id \in CaseIds : Cardinality(EventsOfCase(id)) = commits[id]
  /\ \A e1, e2 \in events : e1.id = e2.id => e1 = e2
  /\ \A e \in events : e.case_id \in DOMAIN cases

\* C2 witness: three operations committed on case 1.
C2_Witness == commits[1] = 3 /\ Cardinality(EventsOfCase(1)) = 3

\* C2 witness of the other half: an operation threw, one returned not found or
\* committed before it, and the events are those of the commits.
C2_WitnessNoEventOnFailure ==
  /\ last.outcome = "threw"
  /\ commits[1] = 2
  /\ Cardinality(events) = 2

\* ---------------------------------------------------------------- C3
LegalTransitions ==
  {<<Some("DRAFT"), Some("IN_REVIEW")>>, <<Some("IN_REVIEW"), Some("APPROVED")>>,
   <<Some("IN_REVIEW"), Some("RETURNED")>>, <<Some("RETURNED"), Some("IN_REVIEW")>>}

\* C3: every change of a case's workflow state committed by transitionCase is
\* one of the four legal transitions.
C3_OnlyLegalTransitions ==
  [][\A p \in Procs :
       (CommitsNow(p) /\ tx[p].op = "transitionCase"
          /\ cases'[tx[p].id]["state"] # cases[tx[p].id]["state"])
       => <<cases[tx[p].id]["state"], cases'[tx[p].id]["state"]>> \in LegalTransitions]_vars

\* ---------------------------------------------------------------- C4
\* C4: once the committed state of a case is APPROVED it stays APPROVED.
C4_ApprovedIsTerminal ==
  [][\A id \in DOMAIN cases :
       cases[id]["state"] = Some("APPROVED") => cases'[id]["state"] = Some("APPROVED")]_vars

\* ---------------------------------------------------------------- C5
\* C5: a committed createCase adds one new case row in state DRAFT with
\* created_by and updated_by the given createdBy, adds exactly one event for
\* it (CREATE, from_state NULL, to_state DRAFT, actor_id createdBy), and
\* changes no other case and no other event.
C5_CreateCase ==
  [][\A p \in Procs :
       (CommitsNow(p) /\ tx[p].op = "createCase") =>
         LET id == tx[p].id
             createdBy == tx[p].args.createdBy
         IN /\ id \notin DOMAIN cases
            /\ DOMAIN cases' = DOMAIN cases \cup {id}
            /\ OtherRowsKept(id)
            /\ cases'[id]["state"] = Some("DRAFT")
            /\ cases'[id]["created_by"] = createdBy
            /\ cases'[id]["updated_by"] = createdBy
            /\ events \subseteq events'
            /\ Cardinality(NewEvents) = 1
            /\ \A e \in NewEvents :
                 /\ e.case_id = id
                 /\ e.event_type = Some("CREATE")
                 /\ e.from_state = Null
                 /\ e.to_state = Some("DRAFT")
                 /\ e.actor_id = createdBy]_vars

\* C5 witness: two cases created, each with its CREATE event and nothing else.
C5_Witness ==
  /\ DOMAIN cases = {1, 2}
  /\ \A id \in {1, 2} :
       /\ cases[id]["state"] = Some("DRAFT")
       /\ cases[id]["created_by"] = Some("alice")
       /\ \E e \in events : e.case_id = id /\ e.event_type = Some("CREATE")
  /\ Cardinality(events) = 2

\* ---------------------------------------------------------------- C6
\* C6: a field-group update or transitionCase whose SELECT finds no row goes
\* to its not-found ROLLBACK; from there it never issues COMMIT, the tables
\* stay as they are, and when that ROLLBACK succeeds it returns null and
\* throws nothing.
C6_NotFound ==
  [][\A p \in Procs :
       /\ (tx[p].pc = "select" /\ Steps(p) /\ tx[p].id \notin DOMAIN cases) =>
            /\ tx'[p].pc \in {"nf_rollback", "catch"}
            /\ cases' = cases /\ events' = events
       /\ (tx[p].pc = "nf_rollback" /\ Steps(p)) =>
            /\ tx'[p].pc \in {"idle", "catch"}
            /\ cases' = cases /\ events' = events /\ commits' = commits
            /\ tx'[p].pc = "idle" =>
                 /\ last'.op = tx[p].op
                 /\ last'.outcome = "returned"
                 /\ last'.result = Null
                 /\ last'.err = Null]_vars

\* C6 witness: transitionCase on an absent id has returned null while a case
\* and its event exist.
C6_Witness ==
  /\ last.op = "transitionCase"
  /\ last.outcome = "returned"
  /\ last.result = Null
  /\ DOMAIN cases = {1}
  /\ Cardinality(events) = 1

\* ---------------------------------------------------------------- C7
\* No other operation committed on the case of request p between p's SELECT
\* and this step.
ReadIsCurrent(p) == tx[p].readVer = commits[tx[p].id]

\* C7 as stated: the event of every committed field-group update has before
\* equal to the snapshot of the row immediately before the update's write
\* took effect and after equal to the snapshot of the row immediately after.
C7_SnapshotsAroundWrite ==
  [][\A p \in Procs :
       (CommitsNow(p) /\ tx[p].op \in UpdateOps) =>
         \A e \in NewEvents :
           /\ e.event_data # Null
           /\ e.event_data[1].before = pickCaseSnapshot(cases[tx[p].id])
           /\ e.event_data[1].after = pickCaseSnapshot(cases'[tx[p].id])]_vars

\* C7 amended: after is the snapshot of the row immediately after the write;
\* before is the snapshot of the row as the update's own SELECT read it, which
\* is the row immediately before the write whenever no other operation on the
\* case committed between that SELECT and the write.
C7_SnapshotsAsObserved ==
  [][\A p \in Procs :
       /\ (CommitsNow(p) /\ tx[p].op \in UpdateOps) =>
            /\ Cardinality(NewEvents) = 1
            /\ \A e \in NewEvents :
                 /\ e.event_data # Null
                 /\ e.event_data[1].after = pickCaseSnapshot(cases'[tx[p].id])
                 /\ e.event_data[1].before = pickCaseSnapshot(tx[p].beforeRow)
                 /\ ReadIsCurrent(p) =>
                      e.event_data[1].before = pickCaseSnapshot(cases[tx[p].id])
       /\ (tx[p].pc = "select" /\ tx'[p].pc = "write" /\ tx[p].op \in UpdateOps) =>
            tx'[p].beforeRow = cases[tx[p].id]]_vars

\* C7 witness: two field-group updates of one case both read the row before
\* either wrote, and both committed: their events have the same before.
C7_Witness ==
  \E e1, e2 \in events :
    /\ e1.id < e2.id
    /\ e1.case_id = e2.case_id
    /\ e1.event_data # Null /\ e2.event_data # Null
    /\ e1.event_data[1].before = e2.event_data[1].before
    /\ e1.event_data[1].after # e1.event_data[1].before
    /\ e2.event_data[1].after = pickCaseSnapshot(cases[e2.case_id])

\* ---------------------------------------------------------------- C8
\* The columns each field-group update may change.
GroupCols(op) ==
  CASE op = "updateCaseDetails" -> {"title", "description"}
    [] op = "updatePersonDetails" ->
         {"person_name", "nhs_number", "dob_day", "dob_month", "dob_year"}
    [] op = "updateClinicalDetails" -> {"symptoms_day", "symptoms_month", "symptoms_year"}
    [] op = "updateLocationDetails" -> {"postcode", "organisation"}

\* C8: a committed field-group update changes, on its case row, only the
\* columns of its group, updated_by and updated_at; every other column of the
\* row (state, created_by, assigned_to, version, the other groups) and every
\* other row keep their values.
C8_UpdateFrame ==
  [][\A p \in Procs :
       (CommitsNow(p) /\ tx[p].op \in UpdateOps) =>
         LET id == tx[p].id
         IN /\ id \in DOMAIN cases
            /\ DOMAIN cases' = DOMAIN cases
            /\ OtherRowsKept(id)
            /\ \A k \in CaseCols \ (GroupCols(tx[p].op) \cup {"updated_by", "updated_at"}) :
                 cases'[id][k] = cases[id][k]]_vars

\* C8 witness: two cases exist, and one of them holds both the person group
\* and the location group written by two updates.
C8_Witness ==
  \E id \in DOMAIN cases :
    /\ cases[id]["person_name"] = Some("Jane Doe")
    /\ cases[id]["postcode"] # Null
    /\ cases[id]["title"] = Some("Flu cluster")
    /\ cases[id]["state"] = Some("DRAFT")

\* C8 witness of the other rows: an update committed on one of two cases.
C8_WitnessOtherRow ==
  /\ DOMAIN cases = {1, 2}
  /\ cases[2]["postcode"] # Null
  /\ cases[1]["postcode"] = Null

\* ---------------------------------------------------------------- C9
\* The event_type of each field group.
GroupEventType(op) ==
  CASE op = "updateCaseDetails" -> "EDIT_DETAILS"
    [] op = "updatePersonDetails" -> "EDIT_PERSON"
    [] op = "updateClinicalDetails" -> "EDIT_CLINICAL"
    [] op = "updateLocationDetails" -> "EDIT_LOCATION"

\* C9: the event of a committed field-group update has the event_type of its
\* group, and its from_state and to_state both equal the workflow state of the
\* case, which the update leaves unchanged.
C9_EditEvent ==
  [][\A p \in Procs :
       (CommitsNow(p) /\ tx[p].op \in UpdateOps) =>
         /\ Cardinality(NewEvents) = 1
         /\ \A e \in NewEvents :
              /\ e.case_id = tx[p].id
              /\ e.event_type = Some(GroupEventType(tx[p].op))
              /\ e.from_state = e.to_state
              /\ e.to_state = cases[tx[p].id]["state"]
              /\ e.to_state = cases'[tx[p].id]["state"]]_vars

\* C9 witness: a clinical edit of a case that is IN_REVIEW.
C9_Witness ==
  \E e \in events :
    /\ e.event_type = Some("EDIT_CLINICAL")
    /\ e.from_state = Some("IN_REVIEW")
    /\ cases[e.case_id]["state"] = Some("IN_REVIEW")

\* ---------------------------------------------------------------- C10
\* C10 as stated: the event of a committed transitionCase carries the
\* requested event_type, the given actor_id and comment, from_state equal to
\* the state of the case immediately before the transition's write and
\* to_state equal to the state of the row immediately after it.
C10_TransitionEvent ==
  [][\A p \in Procs :
       (CommitsNow(p) /\ tx[p].op = "transitionCase") =>
         \A e \in NewEvents :
           /\ e.event_type = tx[p].args.eventType
           /\ e.actor_id = tx[p].args.actorId
           /\ e.comment = tx[p].args.comment
           /\ e.from_state = cases[tx[p].id]["state"]
           /\ e.to_state = cases'[tx[p].id]["state"]]_vars

\* C10 amended: from_state is the state the transition's own SELECT read,
\* which is the state immediately before the write whenever no other
\* operation on the case committed between that SELECT and the write.
C10_TransitionEventAsObserved ==
  [][\A p \in Procs :
       /\ (CommitsNow(p) /\ tx[p].op = "transitionCase") =>
            /\ Cardinality(NewEvents) = 1
            /\ \A e \in NewEvents :
                 /\ e.case_id = tx[p].id
                 /\ e.event_type = tx[p].args.eventType
                 /\ e.actor_id = tx[p].args.actorId
                 /\ e.comment = tx[p].args.comment
                 /\ e.to_state = cases'[tx[p].id]["state"]
                 /\ e.from_state = tx[p].beforeRow["state"]
                 /\ ReadIsCurrent(p) => e.from_state = cases[tx[p].id]["state"]
       /\ (tx[p].pc = "select" /\ tx'[p].pc = "write" /\ tx[p].op = "transitionCase") =>
            tx'[p].beforeRow["state"] = cases[tx[p].id]["state"]]_vars

\* C10 witness: two transitions of one case both read DRAFT before either
\* wrote, and both committed; the later event says DRAFT although the row was
\* no longer DRAFT when it was written.
C10_Witness ==
  \E e1, e2 \in events :
    /\ e1.id # e2.id
    /\ e1.case_id = e2.case_id
    /\ e1.event_type = Some("SUBMIT_FOR_REVIEW") /\ e2.event_type = Some("RETURN")
    /\ e1.from_state = Some("DRAFT") /\ e2.from_state = Some("DRAFT")
    /\ e2.comment = Some("incomplete")
    /\ cases[e2.case_id]["state"] = Some("RETURNED")

\* ---------------------------------------------------------------- C11
\* C11: createCase, then updatePersonDetails on that case, then transitionCase
\* with SUBMIT_FOR_REVIEW, run one after another with no failure, leave the
\* case IN_REVIEW with exactly three events, in order of id: CREATE (NULL to
\* DRAFT), EDIT_PERSON (DRAFT to DRAFT, after.person_name the submitted name),
\* SUBMIT_FOR_REVIEW (DRAFT to IN_REVIEW).
C11_EndToEndExample ==
  scenario = 6 =>
    /\ cases[1]["state"] = Some("IN_REVIEW")
    /\ Cardinality(EventsOfCase(1)) = 3
    /\ \E e1, e2, e3 \in EventsOfCase(1) :
         /\ e1.id < e2.id /\ e2.id < e3.id
         /\ e1.event_type = Some("CREATE")
         /\ e1.from_state = Null /\ e1.to_state = Some("DRAFT")
         /\ e2.event_type = Some("EDIT_PERSON")
         /\ e2.from_state = Some("DRAFT") /\ e2.to_state = Some("DRAFT")
         /\ e2.event_data # Null
         /\ e2.event_data[1].after["person_name"] = Some("Jane Doe")
         /\ e3.event_type = Some("SUBMIT_FOR_REVIEW")
         /\ e3.from_state = Some("DRAFT") /\ e3.to_state = Some("IN_REVIEW")

\* C11 witness: the three calls of the example have run and committed.
C11_Witness == scenario = 6 /\ commits[1] = 3 /\ Cardinality(events) = 3

\* ---------------------------------------------------------------- C12
\* C12 as stated: a transitionCase with SUBMIT_FOR_REVIEW that finds the case
\* IN_REVIEW, and whose case is IN_REVIEW when it ends, is rejected or is a
\* no-op: whichever way it ends, it leaves the case rows and the events
\* unchanged.
C12_ResubmitIsNoOp ==
  [][\A p \in Procs :
       (/\ Steps(p)
        /\ tx[p].op = "transitionCase"
        /\ tx[p].args.eventType = Some("SUBMIT_FOR_REVIEW")
        /\ tx[p].beforeRow # Null
        /\ tx[p].beforeRow["state"] = Some("IN_REVIEW")
        /\ cases[tx[p].id]["state"] = Some("IN_REVIEW")) =>
         (cases' = cases /\ events' = events)]_vars

\* ---------------------------------------------------------------- C13
\* The event types transitionCase maps to a state.
RecognisedEventTypes == {Some("SUBMIT_FOR_REVIEW"), Some("RETURN"), Some("APPROVE")}

\* Request p runs transitionCase with an eventType it does not recognise.
UnrecognisedTransition(p) ==
  tx[p].op = "transitionCase" /\ tx[p].args.eventType \notin RecognisedEventTypes

\* C13 as stated: a committed transitionCase with an unrecognised eventType
\* leaves the workflow state of the case as it was immediately before.
C13_UnrecognisedKeepsState ==
  [][\A p \in Procs :
       (CommitsNow(p) /\ UnrecognisedTransition(p)) =>
         cases'[tx[p].id]["state"] = cases[tx[p].id]["state"]]_vars

\* C13 amended: transitionCase with an unrecognised eventType throws only
\* when a store call fails; it writes the state its own SELECT read, which is
\* the state immediately before whenever no other operation on the case
\* committed between that SELECT and the write, and returns the projection of
\* the written row.
C13_UnrecognisedWritesStateRead ==
  [][\A p \in Procs :
       /\ (CommitsNow(p) /\ UnrecognisedTransition(p)) =>
            /\ cases'[tx[p].id]["state"] = tx[p].beforeRow["state"]
            /\ ReadIsCurrent(p) =>
                 cases'[tx[p].id]["state"] = cases[tx[p].id]["state"]
            /\ last'.outcome = "returned" /\ last'.err = Null
            /\ last'.result =
                 Some(Returning(cases'[tx[p].id], TransitionReturningCols))
       /\ (Steps(p) /\ UnrecognisedTransition(p) /\ tx[p].beforeRow # Null
             /\ tx'[p].pc = "catch") =>
            failures' = failures + 1]_vars

\* C13 witness: REVIEW_APPROVE on a case IN_REVIEW has just returned; the
\* case is still IN_REVIEW.
C13_Witness ==
  /\ last.op = "transitionCase" /\ last.outcome = "returned"
  /\ \E e \in events :
       /\ e.event_type = Some("REVIEW_APPROVE")
       /\ e.from_state = Some("IN_REVIEW") /\ e.to_state = Some("IN_REVIEW")
       /\ e.id = seq
       /\ cases[e.case_id]["state"] = Some("IN_REVIEW")

\* ---------------------------------------------------------------- C14
\* C14 as stated: an operation in which a store call failed issues ROLLBACK
\* from its catch block, retries no step, and ends by throwing to its caller
\* the error of the call that failed, unmodified.
C14_OriginalErrorRethrown ==
  [][\A p \in Procs :
       (tx[p].pc = "catch" /\ Steps(p)) =>
         /\ tx'[p].pc = "idle"
         /\ last'.outcome = "threw"
         /\ last'.err = tx[p].err]_vars

\* ---------------------------------------------------------------- C15
\* The requests that hold a client of the pool.
Running == {p \in Procs : tx[p].pc # "idle"}

\* C15: every operation releases the client it acquired exactly once, on
\* every exit path: the clients checked out of the pool are exactly those of
\* the operations in progress, and an operation that has ended released once.
C15_ClientReleasedOnce ==
  /\ checkedOut = Cardinality(Running)
  /\ last.outcome # "none" => last.releases = 1

\* C15 witness: an operation ended by a failing ROLLBACK in its catch block,
\* and no client remains checked out.
C15_Witness ==
  /\ last.outcome = "threw" /\ last.err = Some("ROLLBACK failed")
  /\ Running = {}
  /\ checkedOut = 0

\* ---------------------------------------------------------------- C16
\* C16: events are write-once: no step of any operation removes a committed
\* event or changes one of its fields, and a new event never takes the id of
\* a committed one; the set of committed events only grows.
C16_EventsWriteOnce ==
  [][/\ events \subseteq events'
     /\ \A e \in NewEvents : \A f \in events : f.id # e.id]_vars

\* C16 witness: the CREATE event of a case is still there, as written, after
\* two later operations on the same case committed their events.
C16_Witness ==
  \E e \in events :
    /\ e.event_type = Some("CREATE") /\ e.id = 1 /\ e.to_state = Some("DRAFT")
    /\ commits[e.case_id] = 3
    /\ \E f, g \in events :
         f.id = 2 /\ g.id = 3 /\ f.case_id = e.case_id /\ g.case_id = e.case_id

\* ---------------------------------------------------------------- C17
\* The columns of the two date triples.
DobCols == {"dob_day", "dob_month", "dob_year"}
SymptomsCols == {"symptoms_day", "symptoms_month", "symptoms_year"}

\* The columns cols of the row are all present or all absent.
TripleWhole(row, cols) ==
  (\A k \in cols : row[k] = Null) \/ (\A k \in cols : row[k] # Null)

\* C17: in every committed state of the store reached through the handlers,
\* the date-of-birth triple of every case is all present or all absent, and
\* likewise its symptoms-date triple.
C17_DateTriplesWhole ==
  \A id \in DOMAIN cases :
    TripleWhole(cases[id], DobCols) /\ TripleWhole(cases[id], SymptomsCols)

\* C17 witness: a case holds a full date of birth and a full symptoms date,
\* and a form with a partial date of birth has just been answered with 400.
C17_Witness ==
  /\ last.op = "POST /cases/:id/person" /\ last.outcome = "400"
  /\ last.err = Some(<<"#dob">>)
  /\ \E id \in DOMAIN cases :
       /\ \A k \in DobCols \cup SymptomsCols : cases[id][k] # Null
       /\ cases[id]["dob_year"] = Some(1990)

\* ---------------------------------------------------------------- C18
\* The values a field-group update submits for the columns of its group (an
\* empty text or a zero is stored as NULL).
SubmittedValues(op, a) ==
  CASE op = "updateCaseDetails" ->
         [title |-> a.title, description |-> OrNullText(a.description)]
    [] op = "updatePersonDetails" ->
         [person_name |-> OrNullText(a.personName), nhs_number |-> OrNullText(a.nhsNumber),
          dob_day |-> OrNullInt(a.dobDay), dob_month |-> OrNullInt(a.dobMonth),
          dob_year |-> OrNullInt(a.dobYear)]
    [] op = "updateClinicalDetails" ->
         [symptoms_day |-> OrNullInt(a.symptomsDay),
          symptoms_month |-> OrNullInt(a.symptomsMonth),
          symptoms_year |-> OrNullInt(a.symptomsYear)]
    [] op = "updateLocationDetails" ->
         [postcode |-> OrNullText(a.postcode), organisation |-> OrNullText(a.organisation)]

\* A writer that waits for the lock of a row waits for an operation that is
\* past its own write, which nothing blocks: no two operations wait for each
\* other.
WaitsOnlyForUnblocked ==
  \A p \in Procs :
    (tx[p].pc = "write" /\ tx[p].op # "createCase" /\ RowLocked(tx[p].id)) =>
      \E q \in Procs :
        q # p /\ HoldsLock(q, tx[p].id) /\ tx[q].pc \in {"event", "commit", "catch"}

\* C18: field-group updates of one case that run concurrently are not aborted
\* by each other (an update leaves its path to COMMIT only on a store failure
\* or a constraint violation, and never waits for an operation that waits),
\* and whenever one commits, the columns of its group and updated_by hold the
\* values it submitted: after both committed, those of the last committer.
C18_LastCommitWins ==
  /\ []WaitsOnlyForUnblocked
  /\ [][\A p \in Procs :
          /\ (CommitsNow(p) /\ tx[p].op \in UpdateOps) =>
               LET v == SubmittedValues(tx[p].op, tx[p].args)
               IN /\ DOMAIN v = GroupCols(tx[p].op)
                  /\ \A k \in DOMAIN v : cases'[tx[p].id][k] = v[k]
                  /\ cases'[tx[p].id]["updated_by"] = tx[p].args.actorId
          /\ (Steps(p) /\ tx[p].op \in UpdateOps /\ tx[p].pc # "catch"
                /\ tx'[p].pc = "catch") =>
               (failures' = failures + 1 \/ tx'[p].err = Some("not_null_violation"))]_vars

\* C18 witness: two location updates of one case both read the row before
\* either wrote and both committed; the row holds the postcode, organisation
\* and updated_by of the one that committed last.
C18_Witness ==
  \E e1, e2 \in events :
    /\ e1.id < e2.id
    /\ e1.case_id = e2.case_id
    /\ e1.event_type = Some("EDIT_LOCATION") /\ e2.event_type = Some("EDIT_LOCATION")
    /\ e1.event_data[1].before = e2.event_data[1].before
    /\ e1.event_data[1].after["postcode"] # e2.event_data[1].after["postcode"]
    /\ cases[e2.case_id]["postcode"] = e2.event_data[1].after["postcode"]
    /\ cases[e2.case_id]["organisation"] = e2.event_data[1].after["organisation"]
    /\ cases[e2.case_id]["updated_by"] = e2.actor_id
    /\ cases[e2.case_id]["updated_by"] # e1.actor_id

\* ---------------------------------------------------------------- C19
\* Absent and the empty string are one value of a simple key.
TextValue(snapshot, k) ==
  IF Get(snapshot, k) = Some("") THEN Null ELSE Get(snapshot, k)

\* The number of rows with the given label.
RowsLabelled(rows, label) == Cardinality({i \in DOMAIN rows : rows[i].key = label})

\* C19: buildChangedRows returns exactly one row for each simple key whose
\* values differ (absent and the empty string being equal), exactly one
\* 'Date of birth' row if and only if at least one of the three dob parts
\* differs, exactly one 'Symptoms start date' row if and only if at least one
\* of the three symptoms parts differs, and no other rows.
C19_DiffRows ==
  diff.rows # Null =>
    LET rows == diff.rows[1]
        b == diff.before
        a == diff.after
        simple == {k \in Range(simpleKeys) : TextValue(b, k) # TextValue(a, k)}
        dob == \E k \in {"dob_day", "dob_month", "dob_year"} : Get(b, k) # Get(a, k)
        symptoms ==
          \E k \in {"symptoms_day", "symptoms_month", "symptoms_year"} : Get(b, k) # Get(a, k)
    IN /\ \A k \in Range(simpleKeys) :
            RowsLabelled(rows, labelMap(k)) = IF k \in simple THEN 1 ELSE 0
       /\ RowsLabelled(rows, "Date of birth") = IF dob THEN 1 ELSE 0
       /\ RowsLabelled(rows, "Symptoms start date") = IF symptoms THEN 1 ELSE 0
       /\ Len(rows) = Cardinality(simple) + (IF dob THEN 1 ELSE 0)
                        + (IF symptoms THEN 1 ELSE 0)

\* C19 witness: only dob_year differs between the two snapshots, and the page
\* has one row, for the date of birth.
C19_Witness ==
  /\ diff.rows # Null
  /\ diff.before = FullSnapshot
  /\ diff.after = [FullSnapshot EXCEPT !.dob_year = Some(1)]
  /\ Len(diff.rows[1]) = 1
  /\ diff.rows[1][1].key = "Date of birth"
  /\ diff.rows[1][1].from = ShownDate(15, "March", 1990)

\* ---------------------------------------------------------------- C20
\* The field-group update of request p submits the values its case row holds
\* for the columns of its group, and held when the update read it.
SubmitsCurrentValues(p) ==
  LET v == SubmittedValues(tx[p].op, tx[p].args)
  IN \A k \in DOMAIN v : v[k] = cases[tx[p].id][k] /\ v[k] = tx[p].beforeRow[k]

\* C20 as stated: a committed field-group update that submitted the values
\* the row held for its group wrote an event whose snapshots give no diff row.
C20_SameValuesNoDiffRows ==
  [][\A p \in Procs :
       (CommitsNow(p) /\ tx[p].op \in UpdateOps /\ SubmitsCurrentValues(p)) =>
         \A e \in NewEvents :
           buildChangedRows(e.event_data[1].before, e.event_data[1].after) = << >>]_vars

\* C20 amended: the same, when no other operation on the case committed
\* between the update's SELECT and its write.
C20_SameValuesNoDiffRowsWhenReadCurrent ==
  [][\A p \in Procs :
       (CommitsNow(p) /\ tx[p].op \in UpdateOps /\ SubmitsCurrentValues(p)
          /\ ReadIsCurrent(p)) =>
         /\ Cardinality(NewEvents) = 1
         /\ \A e \in NewEvents :
              /\ e.event_data # Null
              /\ buildChangedRows(e.event_data[1].before, e.event_data[1].after) = << >>]_vars

\* C20 witness: a person update of a case that already held the submitted
\* name and date of birth has committed the latest event; its snapshots give
\* no diff row.
C20_Witness ==
  \E e \in events :
    /\ e.event_type = Some("EDIT_PERSON")
    /\ e.event_data[1].before["person_name"] = Some("Jane Doe")
    /\ e.event_data[1].before["dob_year"] = Some(1990)
    /\ e.event_data[1].after["person_name"] = Some("Jane Doe")
    /\ buildChangedRows(e.event_data[1].before, e.event_data[1].after) = << >>
    /\ e.id = seq

\* ---------------------------------------------------------------- C21
\* C21: no operation checks or changes the version counter: the version of
\* every case, committed or written by a transaction in progress, is the one
\* it was created with, and an operation is in its catch block only after a
\* failed store call or a constraint violation, never a version conflict.
C21_VersionNeverChanges ==
  /\ \A id \in DOMAIN cases : cases[id]["version"] = Some(1)
  /\ \A p \in Procs :
       /\ tx[p].written # Null => tx[p].written["version"] = Some(1)
       /\ tx[p].pc = "catch" =>
            tx[p].err \in {Some("BEGIN"), Some("SELECT"), Some("ROLLBACK"),
                           Some("INSERT cases"), Some("UPDATE cases"),
                           Some("INSERT case_events"), Some("COMMIT"),
                           Some("not_null_violation")}

\* C21 witness: a case has gone through an update and a transition, and its
\* version is still 1.
C21_Witness ==
  \E id \in DOMAIN cases :
    /\ commits[id] = 3
    /\ cases[id]["version"] = Some(1)
    /\ cases[id]["state"] # Some("DRAFT")
    /\ \E e \in EventsOfCase(id) : e.event_data # Null

\* ---------------------------------------------------------------- C22
\* The eventType a workflow route passes to transitionCase.
RouteEventType(route) == HandlerArgs(route, [comment |-> Some("incomplete")]).eventType

\* C22 as stated: the submit action on a DRAFT case leaves it IN_REVIEW, the
\* approve action on an IN_REVIEW case leaves it APPROVED, and the return
\* action with a reason on an IN_REVIEW case leaves it RETURNED (no other
\* operation on the case having committed since the action read it).
C22_WorkflowActionsReachNamedState ==
  [][\A p \in Procs :
       (CommitsNow(p) /\ tx[p].op = "transitionCase" /\ ReadIsCurrent(p)) =>
         LET from == cases[tx[p].id]["state"]
             to == cases'[tx[p].id]["state"]
             tag == tx[p].args.eventType
         IN /\ (tag = RouteEventType("POST /cases/:id/submit") /\ from = Some("DRAFT")) =>
                 to = Some("IN_REVIEW")
            /\ (tag = RouteEventType("POST /cases/:id/approve")
                  /\ from = Some("IN_REVIEW")) =>
                 to = Some("APPROVED")
            /\ (tag = RouteEventType("POST /cases/:id/return")
                  /\ from = Some("IN_REVIEW")) =>
                 to = Some("RETURNED")]_vars

\* ---------------------------------------------------------------- C23
\* C23: a committed transitionCase changes, on its case row, only state,
\* updated_by and updated_at; every other column of the row (the content
\* fields, created_by, created_at, assigned_to, version) keeps its value, no
\* row is added or removed, and every other row keeps its values.
C23_TransitionFrame ==
  [][\A p \in Procs :
       (CommitsNow(p) /\ tx[p].op = "transitionCase") =>
         LET id == tx[p].id
         IN /\ id \in DOMAIN cases
            /\ DOMAIN cases' = DOMAIN cases
            /\ OtherRowsKept(id)
            /\ \A k \in CaseCols \ {"state", "updated_by", "updated_at"} :
                 cases'[id][k] = cases[id][k]]_vars

\* C23 witness: a transition with a comment returned a case that holds
\* person details; the details are still on the row.
C23_Witness ==
  /\ last.op = "transitionCase" /\ last.outcome = "returned"
  /\ \E id \in DOMAIN cases :
       /\ cases[id]["state"] = Some("RETURNED")
       /\ cases[id]["updated_by"] = Some("carol")
       /\ cases[id]["person_name"] = Some("Jane Doe")
       /\ cases[id]["description"] = Null

\* ---------------------------------------------------------------- C24
\* The committed event of case id with the highest id.
LastEventOf(id) ==
  CHOOSE e \in EventsOfCase(id) : \A f \in EventsOfCase(id) : f.id <= e.id

\* C24: in every committed state, every case has events, and the workflow
\* state on its row is the to_state of its event with the highest id.
C24_StateIsLastToState ==
  \A id \in DOMAIN cases :
    /\ EventsOfCase(id) # {}
    /\ cases[id]["state"] = LastEventOf(id).to_state

\* C24 witness: a field-group update read a DRAFT case, a transition of the
\* case committed before the update wrote, and the update's event is the
\* latest of the case: its to_state is the state on the row, IN_REVIEW.
C24_Witness ==
  \E id \in DOMAIN cases :
    /\ LastEventOf(id).event_data # Null
    /\ LastEventOf(id).event_data[1].before["state"] = Some("DRAFT")
    /\ LastEventOf(id).to_state = Some("IN_REVIEW")
    /\ cases[id]["state"] = Some("IN_REVIEW")

\* ---------------------------------------------------------------- C25
\* Events e and f of one case are consecutive in id order.
Consecutive(e, f) ==
  /\ e.case_id = f.case_id
  /\ e.id < f.id
  /\ \A g \in events : g.case_id = e.case_id => (g.id <= e.id \/ g.id >= f.id)

\* C25 as stated: for any two events of one case that are consecutive in id
\* order, the from_state of the later is the to_state of the earlier.
C25_ChainIsContinuous ==
  \A e, f \in events : Consecutive(e, f) => f.from_state = e.to_state

\* C25 amended: the event an operation commits has the highest id of its
\* case; the event of a field-group update continues the chain; the event of
\* a transitionCase has the state its own SELECT read as from_state, which
\* continues the chain whenever no other operation on the case committed
\* between that SELECT and the write; the CREATE event starts the chain.
C25_ChainContinuousWhenReadCurrent ==
  [][\A p \in Procs :
       CommitsNow(p) =>
         /\ Cardinality(NewEvents) = 1
         /\ \A e \in NewEvents :
              /\ \A f \in events : f.case_id = e.case_id => f.id < e.id
              /\ tx[p].op = "createCase" =>
                   (e.from_state = Null /\ EventsOfCase(e.case_id) = {})
              /\ tx[p].op \in UpdateOps =>
                   e.from_state = LastEventOf(e.case_id).to_state
              /\ tx[p].op = "transitionCase" =>
                   /\ e.from_state = tx[p].beforeRow["state"]
                   /\ ReadIsCurrent(p) => e.from_state = LastEventOf(e.case_id).to_state]_vars

\* C25 witness: a chain of three events, a transition between a create and a
\* field-group update, each starting where the one before ended.
C25_Witness ==
  \E e, f, g \in events :
    /\ Consecutive(e, f) /\ Consecutive(f, g)
    /\ e.event_type = Some("CREATE")
    /\ f.event_type = Some("SUBMIT_FOR_REVIEW")
    /\ f.from_state = e.to_state
    /\ g.event_data # Null
    /\ g.from_state = f.to_state

\* ---------------------------------------------------------------- C26
\* The committed events of case id written by the field-group update op.
GroupEventsOf(id, op) ==
  {e \in EventsOfCase(id) : e.event_type = Some(GroupEventType(op))}

\* C26: field-group updates of different groups on one case never lose each
\* other's write: in every committed state the columns of each group hold
\* the values written by the latest committed update of that group, whatever
\* updates of other groups and transitions ran before, between or after.
C26_GroupsKeepLatestWrite ==
  \A id \in DOMAIN cases : \A op \in UpdateOps :
    GroupEventsOf(id, op) # {} =>
      LET top == CHOOSE e \in GroupEventsOf(id, op) :
                   \A f \in GroupEventsOf(id, op) : f.id <= e.id
      IN \A k \in GroupCols(op) : cases[id][k] = top.event_data[1].after[k]

\* C26 witness: a person update and a location update of one case both read
\* the row before either wrote, and both committed; the row holds the name
\* of the one and the postcode of the other.
C26_Witness ==
  \E e, f \in events :
    /\ e.case_id = f.case_id
    /\ e.event_type = Some("EDIT_PERSON") /\ f.event_type = Some("EDIT_LOCATION")
    /\ e.event_data[1].before = f.event_data[1].before
    /\ e.event_data[1].after["person_name"] = Some("Jane Doe")
    /\ cases[e.case_id]["person_name"] = Some("Jane Doe")
    /\ cases[e.case_id]["postcode"] = f.event_data[1].after["postcode"]
    /\ cases[e.case_id]["postcode"] # Null

\* ---------------------------------------------------------------- C27
\* Request p runs transitionCase on a case it found, towards the state it
\* read: an unrecognised eventType, or a transition to the state the case is
\* already in.
TransitionWithoutChange(p) ==
  /\ tx[p].op = "transitionCase"
  /\ tx[p].beforeRow # Null
  /\ tx[p].toState = tx[p].beforeRow["state"]

\* C27: such a transitionCase still writes: it goes from its SELECT to its
\* UPDATE, its INSERT and its COMMIT, leaving that path only when a store
\* call fails, and its commit overwrites updated_by and updated_at and adds
\* one event of the requested event_type whose from_state equals its to_state.
C27_TransitionAlwaysWrites ==
  [][\A p \in Procs :
       (Steps(p) /\ TransitionWithoutChange(p)) =>
         /\ tx[p].pc = "write" => tx'[p].pc \in {"event", "catch"}
         /\ tx[p].pc = "event" => tx'[p].pc \in {"commit", "catch"}
         /\ (tx[p].pc # "catch" /\ tx'[p].pc = "catch") => failures' = failures + 1
         /\ CommitsNow(p) =>
              /\ cases'[tx[p].id]["updated_by"] = tx[p].args.actorId
              /\ cases'[tx[p].id]["updated_at"] = Some(tx[p].now)
              /\ Cardinality(NewEvents) = 1
              /\ \A e \in NewEvents :
                   /\ e.case_id = tx[p].id
                   /\ e.event_type = tx[p].args.eventType
                   /\ e.from_state = e.to_state]_vars

\* C27 witness: a second SUBMIT_FOR_REVIEW of a case already IN_REVIEW has
\* committed: the row carries its timestamp and the case has a second
\* SUBMIT_FOR_REVIEW event, from IN_REVIEW to IN_REVIEW.
C27_Witness ==
  \E e, f \in events :
    /\ e.case_id = f.case_id /\ e.id < f.id
    /\ e.event_type = Some("SUBMIT_FOR_REVIEW") /\ f.event_type = Some("SUBMIT_FOR_REVIEW")
    /\ e.from_state = Some("DRAFT")
    /\ f.from_state = Some("IN_REVIEW") /\ f.to_state = Some("IN_REVIEW")
    /\ cases[f.case_id]["updated_at"] = Some(clock)
    /\ cases[f.case_id]["updated_by"] = f.actor_id
====
